---- MODULE Spec2Model ----
(***************************************************************************)
(* The entity-update and collision engine of interstellar:                 *)
(* src/interstellar/sprite.py (Sprite, ShipController, Ship, Asteroid,     *)
(* MechanismAsteroid) and src/interstellar/controller.py.                  *)
(*                                                                         *)
(* The program is Python 2 (main.py uses __builtin__ and xrange), so "/"   *)
(* on integers is floor division (\div).  The round object (_parent:       *)
(* asteroids, explode, end, remove_asteroid) and the image collision       *)
(* tests live outside src/; they are modelled from the specification and   *)
(* the outcome of every collision test is an input of the tick.            *)
(***************************************************************************)
EXTENDS Integers, Sequences, FiniteSets, TLC

VARIABLES
    health,            \* Ship.health
    can_damage,        \* Ship.can_damage
    attachment,        \* Ship._attachment
    x, y,              \* ShipController.image.x / .y
    current_distance,  \* ShipController.current_distance
    moving_forward, moving_backward, moving_right, moving_left, firing,
    projectiles,       \* ShipController.projectiles: list of bullet images
    asteroids,         \* _parent.asteroids: list of live Asteroid sprites
    ended,             \* _parent.end() has been called
    destroyed,         \* Sprite.destroy() has run on the ship
    nextAsteroid,      \* identity of the next Asteroid object
    events,            \* per sprite: what has happened to it so far
    faults,            \* runtime misuse seen so far
    last               \* what the last operation did

vars == <<health, can_damage, attachment, x, y, current_distance,
          moving_forward, moving_backward, moving_right, moving_left, firing,
          projectiles, asteroids, ended, destroyed,
          nextAsteroid, events, faults, last>>

(***************************************************************************)
(* Program constants                                                       *)
(***************************************************************************)
ShipSpeed == 15
ShipHealth == 100
ShipDamage == 5
ProjectileSpeed == 20
maximum_projectiles == 15
AsteroidHealth == 10
AsteroidDamage == 1
MechanismHealth == 0
MechanismDamage == 0

(***************************************************************************)
(* Bounds of the model                                                     *)
(***************************************************************************)
DisplayWidth == 40     \* _parent.root.display.width, also winfo_width()
DisplayHeight == 50    \* _parent.root.display.height, also winfo_height()
ShipWidth == 10        \* width of assets/player.png
ShipHeight == 20       \* height of assets/player.png
MaxDistance == 15      \* Spec: no tick starts with current_distance above this
MaxBarrage == 120      \* SpecBarrage: no tick starts with current_distance above this
MaxSpawns == 2         \* asteroids created in one round
MaxCalls == 2          \* SpecSprite: die calls per sprite
MaxHealth == 3         \* SpecSprite: health lies in -MaxHealth .. MaxHealth
MaxDamage == 2         \* SpecSprite: an attacker's damage lies in 0 .. MaxDamage
MaxVolley == 6         \* SpecVolley: a volley starts from a health in 1 .. MaxVolley
MaxFlight == 15        \* SpecFlight: current_distance is followed up to this
MaxMove == 45          \* SpecMove, SpecJoystick: no tick starts with current_distance above this

SHIP == 0
SpriteIds == 0 .. MaxSpawns

\* random.random() * projectile_speed * 2 lies in [0, 40): the draws modelled
ProjectileDraws == {0, 2 * ProjectileSpeed - 1}

AsteroidKinds == {"plain", "shield", "instant_kill", "full_health", "double_health"}

NoAttachment == [type |-> "None", id |-> 0]

ATTACHMENT(kind) ==
    CASE kind = "shield" -> "ShieldMechanism"
      [] kind = "instant_kill" -> "InstantKillMechanism"
      [] kind = "full_health" -> "FullHealthMechanism"
      [] kind = "double_health" -> "DoubleHealthMechanism"
      [] OTHER -> "None"

\* Asteroid.__init__ and MechanismAsteroid.__init__: the fields of a new obstacle
NewAsteroid(id, kind) ==
    [id |-> id, kind |-> kind, is_mechanism |-> kind # "plain",
     health |-> IF kind = "plain" THEN AsteroidHealth ELSE MechanismHealth,
     damage |-> IF kind = "plain" THEN AsteroidDamage ELSE MechanismDamage,
     can_damage |-> TRUE]

NoEvents == [die |-> 0, exploded |-> 0, removed |-> "no"]

\* one hurt call as seen from outside: the health before and after it and the
\* number of times it invoked die
HurtCall(target, attacker, dmg, cd, before, after, deaths) ==
    [target |-> target, attacker |-> attacker, damage |-> dmg, can_damage |-> cd,
     before |-> before, after |-> after, die |-> deaths]

Idle(op) ==
    [op |-> op, count |-> 0, fired |-> FALSE, inflight |-> {}, visited |-> <<>>,
     destroyed |-> <<>>, tested |-> {}, moved |-> {}, topped |-> {}, hit |-> {},
     overlap |-> {}, hurt |-> <<>>, grants |-> <<>>, stick |-> <<0, 0>>,
     struck |-> {}, landed |-> FALSE]

\* Bullets are objects: within one operation a bullet is known by its place in
\* the list when the operation began
Renumber(s) == [i \in 1 .. Len(s) |-> [s[i] EXCEPT !.id = i]]

\* what is kept of an operation's log once it is over
Summary(log, op) ==
    [op |-> op, count |-> log.count, fired |-> log.fired,
     unvisited |-> Cardinality(log.inflight \ {log.visited[k] : k \in 1 .. Len(log.visited)}),
     topped |-> log.topped # {}, hit |-> log.hit # {},
     mixed |-> (log.topped \cap (log.tested \cup log.hit)) # {} \/ (log.hit \ log.tested) # {},
     overlap |-> log.overlap,
     hurt |-> SelectSeq(log.hurt, LAMBDA c : op # "update" \/ c.target = SHIP),
     grants |-> log.grants, stick |-> log.stick, struck |-> log.struck,
     landed |-> log.landed]

(***************************************************************************)
(* The state an operation works on, as one record, so that the helpers     *)
(* below can be composed the way the methods call each other.              *)
(***************************************************************************)
World ==
    [health |-> health, can_damage |-> can_damage, attachment |-> attachment,
     projectiles |-> projectiles, asteroids |-> asteroids, ended |-> ended,
     events |-> events, faults |-> faults, log |-> Idle("none")]

Commit(w, op) ==
    /\ health' = w.health
    /\ can_damage' = w.can_damage
    /\ attachment' = w.attachment
    /\ projectiles' = Renumber(w.projectiles)
    /\ asteroids' = w.asteroids
    /\ ended' = w.ended
    /\ events' = w.events
    /\ faults' = w.faults
    /\ last' = Summary(w.log, op)

\* index of the first element of list s with identity id, 0 when there is none
IndexOfId(s, id) ==
    IF \E i \in 1 .. Len(s) : s[i].id = id
    THEN CHOOSE i \in 1 .. Len(s) : s[i].id = id /\ \A j \in 1 .. (i - 1) : s[j].id # id
    ELSE 0

\* list.remove(e): the list without its first element equal to e
ListRemove(s, id) ==
    LET i == IndexOfId(s, id)
    IN  IF i = 0 THEN s ELSE SubSeq(s, 1, i - 1) \o SubSeq(s, i + 1, Len(s))

(***************************************************************************)
(* The round object (_parent), modelled from the specification             *)
(***************************************************************************)
\* _parent.explode(x, y): an explosion effect at the sprite's image position
Explode(w, id) == [w EXCEPT !.events[id].exploded = @ + 1]

\* _parent.end(): the round ends
End(w) == [w EXCEPT !.ended = TRUE]

\* _parent.remove_asteroid(asteroid, flag): the obstacle leaves the live set
RemoveAsteroid(w, id, how) ==
    [w EXCEPT !.asteroids = ListRemove(@, id), !.events[id].removed = how]

(***************************************************************************)
(* Sprite                                                                  *)
(***************************************************************************)
\* one assignment to Sprite.attachment as seen from outside: what was offered,
\* whether its setup ran and which feedback sound played
Grant(offered, setup, sound) == [offered |-> offered, setup |-> setup, sound |-> sound]

\* the setter with the test of the occupied slot left out
SetAttachmentUnlessSame(w, offered) ==
    IF offered = w.attachment
    THEN [w EXCEPT !.log.grants = Append(@, Grant(offered, FALSE, "attachment_deny_sound"))]
    ELSE [w EXCEPT !.attachment = offered,
                   !.log.grants = Append(@, Grant(offered, TRUE, "attachment_sound"))]

\* Sprite.attachment setter
SetAttachment(w, offered) ==
    IF w.attachment # NoAttachment \/ offered = w.attachment
    THEN [w EXCEPT !.log.grants = Append(@, Grant(offered, FALSE, "attachment_deny_sound"))]
    ELSE [w EXCEPT !.attachment = offered,
                   !.log.grants = Append(@, Grant(offered, TRUE, "attachment_sound"))]

\* hurt with the damage subtracted before the test for death
HurtSubtractFirst(cd, h, dmg) ==
    IF ~cd THEN [health |-> h, die |-> FALSE]
    ELSE IF h <= 0 THEN [health |-> h - dmg, die |-> TRUE]
    ELSE [health |-> h - dmg, die |-> FALSE]

\* hurt that takes one point whatever the attacker's damage
HurtFlat(cd, h, dmg) ==
    IF ~cd THEN [health |-> h, die |-> FALSE]
    ELSE IF h <= 0 THEN [health |-> h, die |-> TRUE]
    ELSE [health |-> h - 1, die |-> FALSE]

\* hurt that invokes die on the hit that would bring the health to zero
HurtEager(cd, h, dmg) ==
    IF ~cd THEN [health |-> h, die |-> FALSE]
    ELSE IF h <= 0 \/ h - dmg <= 0 THEN [health |-> h, die |-> TRUE]
    ELSE [health |-> h - dmg, die |-> FALSE]

\* hurt without the can_damage gate
HurtUngated(cd, h, dmg) ==
    IF h <= 0 THEN [health |-> h, die |-> TRUE]
    ELSE [health |-> h - dmg, die |-> FALSE]

\* Sprite.hurt: the health it leaves and whether it invokes die
Hurt(cd, h, dmg) ==
    IF ~cd THEN [health |-> h, die |-> FALSE]
    ELSE IF h <= 0 THEN [health |-> h, die |-> TRUE]
    ELSE [health |-> h - dmg, die |-> FALSE]

\* Ship.die
ShipDie(w, killer) == End(Explode([w EXCEPT !.events[SHIP].die = @ + 1], SHIP))

\* Asteroid.die
AsteroidDie(w, a) ==
    RemoveAsteroid(Explode([w EXCEPT !.events[a.id].die = @ + 1], a.id), a.id, "killed")

\* MechanismAsteroid.die that leaves the carrier in play when its offer is
\* rejected
MechanismDieIfTaken(w, a) ==
    LET w1 == SetAttachment([w EXCEPT !.events[a.id].die = @ + 1],
                            [type |-> ATTACHMENT(a.kind), id |-> a.id])
    IN  IF w.attachment = NoAttachment THEN RemoveAsteroid(w1, a.id, "collected") ELSE w1

\* MechanismAsteroid.die, killer being the ship
MechanismDie(w, a) ==
    RemoveAsteroid(
        SetAttachment([w EXCEPT !.events[a.id].die = @ + 1],
                      [type |-> ATTACHMENT(a.kind), id |-> a.id]),
        a.id, "collected")

\* Sprite.hurt on the ship, the attacker having identity by and damage dmg
ShipHurt(w, by, dmg) ==
    LET r == Hurt(w.can_damage, w.health, dmg)
        w1 == [w EXCEPT !.health = r.health]
        w2 == IF r.die THEN ShipDie(w1, by) ELSE w1
    IN  [w2 EXCEPT !.log.hurt = Append(@,
            HurtCall(SHIP, by, dmg, w.can_damage, w.health, w2.health,
                     w2.events[SHIP].die - w.events[SHIP].die))]

\* Sprite.hurt on the live obstacle at index i, the attacker having damage dmg
AsteroidHurt(w, i, dmg) ==
    LET a == w.asteroids[i]
        r == Hurt(a.can_damage, a.health, dmg)
        w1 == [w EXCEPT !.asteroids[i].health = r.health]
        w2 == IF r.die
              THEN IF a.is_mechanism THEN MechanismDie(w1, a) ELSE AsteroidDie(w1, a)
              ELSE w1
    IN  [w2 EXCEPT !.log.hurt = Append(@,
            HurtCall(a.id, SHIP, dmg, a.can_damage, a.health, r.health,
                     w2.events[a.id].die - w.events[a.id].die))]

(***************************************************************************)
(* ShipController                                                          *)
(***************************************************************************)
\* ShipController.fire_projectile: two bullets, left and right of the ship
FireProjectile(w, sx, sy) ==
    LET n == Len(w.projectiles)
        bullet0 == [id |-> n + 1, y |-> sy, destroyed |-> 0, mark |-> FALSE]
        bullet1 == [id |-> n + 2, y |-> sy, destroyed |-> 0, mark |-> FALSE]
    IN  [w EXCEPT !.projectiles = @ \o <<bullet0, bullet1>>, !.log.fired = TRUE]

\* destroy_projectile that destroys the image and leaves it in the list
DestroyProjectileKeep(w, p) ==
    [w EXCEPT !.projectiles = [i \in 1 .. Len(w.projectiles) |->
                                  IF w.projectiles[i].id = p.id
                                  THEN [w.projectiles[i] EXCEPT !.destroyed = @ + 1]
                                  ELSE w.projectiles[i]],
              !.log.destroyed = Append(@, p.id),
              !.log.landed = @ \/ p.mark,
              !.faults = @ \cup (IF p.destroyed > 0 THEN {"destroyed twice"} ELSE {})]

\* ShipController.destroy_projectile
DestroyProjectile(w, p) ==
    LET gone == [i \in 1 .. Len(w.projectiles) |->
                    IF w.projectiles[i].id = p.id
                    THEN [w.projectiles[i] EXCEPT !.destroyed = @ + 1]
                    ELSE w.projectiles[i]]
    IN  [w EXCEPT !.projectiles = ListRemove(gone, p.id),
                  !.log.destroyed = Append(@, p.id),
                  !.log.landed = @ \/ p.mark,
                  !.faults = @ \cup (IF p.destroyed > 0 THEN {"destroyed twice"} ELSE {})
                               \cup (IF IndexOfId(w.projectiles, p.id) = 0
                                     THEN {"remove of a missing element"} ELSE {})]

\* ShipController.check_projectile_collisions; colliding is the set of obstacles
\* whose image contains the bullet (the outcome of projectile.collide_point)
CheckProjectileCollisions(w, p, colliding) ==
    LET w1 == [w EXCEPT !.log.tested = @ \cup {p.id}]
        hits == {i \in 1 .. Len(w.asteroids) : w.asteroids[i].id \in colliding}
    IN  IF hits = {} THEN [w |-> w1, hit |-> FALSE]
        ELSE LET i == CHOOSE i \in hits : \A j \in hits : i <= j
                 w2 == [w1 EXCEPT !.log.struck = @ \cup {w.asteroids[i].id}]
             IN  [w |-> AsteroidHurt(w2, i, ShipDamage), hit |-> TRUE]

\* update_projectiles in which a bullet that hits nothing stays where it is
RECURSIVE UpdateProjectilesStill(_, _, _)
UpdateProjectilesStill(w, i, script) ==
    IF i > Len(w.projectiles) THEN w
    ELSE LET p == w.projectiles[i]
             in == script[Len(w.log.visited) + 1]
             w1 == [w EXCEPT !.log.visited = Append(@, p.id)]
         IN  IF p.y <= 0
             THEN UpdateProjectilesStill(
                      DestroyProjectile([w1 EXCEPT !.log.topped = @ \cup {p.id}], p),
                      i + 1, script)
             ELSE LET c == CheckProjectileCollisions(w1, p, in.colliding)
                  IN  IF c.hit
                      THEN UpdateProjectilesStill(
                               DestroyProjectile([c.w EXCEPT !.log.hit = @ \cup {p.id}], p),
                               i + 1, script)
                      ELSE UpdateProjectilesStill(
                               [c.w EXCEPT !.log.moved = @ \cup {p.id}], i + 1, script)

\* ShipController.update_projectiles from position i of the list iterator on;
\* script[k] is what the k-th bullet visited meets: its speed draw and the
\* obstacles it collides with
RECURSIVE UpdateProjectilesFrom(_, _, _)
UpdateProjectilesFrom(w, i, script) ==
    IF i > Len(w.projectiles) THEN w
    ELSE LET p == w.projectiles[i]
             in == script[Len(w.log.visited) + 1]
             w1 == [w EXCEPT !.log.visited = Append(@, p.id),
                             !.faults = @ \cup (IF p.destroyed > 0
                                                THEN {"use after destroy"} ELSE {})]
         IN  IF p.y <= 0
             THEN UpdateProjectilesFrom(
                      DestroyProjectile([w1 EXCEPT !.log.topped = @ \cup {p.id}], p),
                      i + 1, script)
             ELSE LET c == CheckProjectileCollisions(w1, p, in.colliding)
                  IN  IF c.hit
                      THEN UpdateProjectilesFrom(
                               DestroyProjectile([c.w EXCEPT !.log.hit = @ \cup {p.id}], p),
                               i + 1, script)
                      ELSE UpdateProjectilesFrom(
                               [c.w EXCEPT !.projectiles[i].y = @ - in.draw,
                                           !.log.moved = @ \cup {p.id}],
                               i + 1, script)

UpdateProjectiles(w, script) ==
    UpdateProjectilesFrom(
        [w EXCEPT !.log.inflight = {w.projectiles[i].id : i \in 1 .. Len(w.projectiles)}],
        1, script)

\* check_player_collisions that goes on after the first overlap
RECURSIVE CheckPlayerCollisionsAll(_, _, _)
CheckPlayerCollisionsAll(w, i, overlap) ==
    IF i > Len(w.asteroids) THEN w
    ELSE IF w.asteroids[i].id \in overlap
         THEN CheckPlayerCollisionsAll(
                  ShipHurt(w, w.asteroids[i].id, w.asteroids[i].damage), i + 1, overlap)
         ELSE CheckPlayerCollisionsAll(w, i + 1, overlap)

\* ShipController.check_player_collisions from position i of the list iterator
\* on; overlap is the set of obstacles whose image overlaps the ship's
RECURSIVE CheckPlayerCollisionsFrom(_, _, _)
CheckPlayerCollisionsFrom(w, i, overlap) ==
    IF i > Len(w.asteroids) THEN w
    ELSE IF w.asteroids[i].id \in overlap
         THEN ShipHurt(w, w.asteroids[i].id, w.asteroids[i].damage)
         ELSE CheckPlayerCollisionsFrom(w, i + 1, overlap)

CheckPlayerCollisions(w, overlap) ==
    CheckPlayerCollisionsFrom(
        [w EXCEPT !.log.overlap =
            {w.asteroids[i].id : i \in 1 .. Len(w.asteroids)} \cap overlap],
        1, overlap)

\* ShipController.destroy_projectiles from position i of the list iterator on
RECURSIVE DestroyProjectilesFrom(_, _)
DestroyProjectilesFrom(w, i) ==
    IF i > Len(w.projectiles) THEN w
    ELSE DestroyProjectilesFrom(
             DestroyProjectile([w EXCEPT !.log.visited = Append(@, w.projectiles[i].id)],
                               w.projectiles[i]),
             i + 1)

DestroyProjectiles(w) ==
    DestroyProjectilesFrom(
        [w EXCEPT !.log.inflight = {w.projectiles[i].id : i \in 1 .. Len(w.projectiles)}],
        1)

\* ShipController.destroy, reached from Sprite.destroy
Destroy(w) == DestroyProjectiles(w)

\* the vertical part of move with the whole speed taken off the score
MoveYFullRefund(sy) ==
    IF moving_forward /\ ~(sy - ShipHeight \div 2 <= 0)
    THEN [y |-> sy - ShipSpeed, back |-> 0]
    ELSE IF moving_backward /\ ~(sy + ShipHeight \div 2 >= DisplayHeight)
         THEN [y |-> sy + ShipSpeed \div 2, back |-> ShipSpeed]
         ELSE [y |-> sy, back |-> 0]

\* the vertical part of ShipController.move: the new y and what leaves the score
MoveY(sy) ==
    IF moving_forward /\ ~(sy - ShipHeight \div 2 <= 0)
    THEN [y |-> sy - ShipSpeed, back |-> 0]
    ELSE IF moving_backward /\ ~(sy + ShipHeight \div 2 >= DisplayHeight)
         THEN [y |-> sy + ShipSpeed \div 2, back |-> ShipSpeed \div 2]
         ELSE [y |-> sy, back |-> 0]

\* the horizontal part of ShipController.move
MoveX(sx) ==
    IF moving_right /\ ~(sx + ShipWidth \div 2 >= DisplayWidth)
    THEN sx + ShipSpeed
    ELSE IF moving_left /\ ~(sx - ShipWidth \div 2 <= 0)
         THEN sx - ShipSpeed
         ELSE sx

\* the firing test that leaves room for both bullets of a pair
MayFirePair(w) == firing /\ Len(w.projectiles) + 1 < maximum_projectiles

\* the firing test with <= for <
MayFireInclusive(w) == firing /\ Len(w.projectiles) <= maximum_projectiles

\* the firing part of ShipController.move
MayFire(w) == firing /\ Len(w.projectiles) < maximum_projectiles

\* ShipController.move after the ship has moved to (sx, sy)
MoveRest(w, sx, sy, script, overlap) ==
    LET w0 == [w EXCEPT !.log.count = Len(w.projectiles)]
        w1 == IF MayFire(w0) THEN FireProjectile(w0, sx, sy) ELSE w0
    IN  CheckPlayerCollisions(UpdateProjectiles(w1, script), overlap)

(***************************************************************************)
(* The inputs of one tick                                                  *)
(***************************************************************************)
LiveIds == {asteroids[i].id : i \in 1 .. Len(asteroids)}

\* the outcomes of a collision test against the live obstacles that are told
\* apart: no obstacle, one obstacle, all of them
Overlaps == {{}, LiveIds} \cup {{a} : a \in LiveIds}

StepInputs == [draw : ProjectileDraws, colliding : Overlaps]

\* the obstacles a kind of round may create
SpawnKinds == {"plain", "shield", "instant_kill"}

\* The scripts of a tick with n bullets in flight: script[k] is what the k-th
\* bullet visited meets.  Either every bullet meets the same, or every bullet
\* draws the same speed and hits nothing but for one, the k-th visited.
UniformScripts(n) == {[k \in 1 .. n |-> all] : all \in StepInputs}

Scripts(n) ==
    UniformScripts(n)
        \cup {[k \in 1 .. n |-> IF k = j THEN one ELSE [draw |-> base, colliding |-> {}]] :
                 j \in 1 .. n, one \in StepInputs, base \in ProjectileDraws}

(***************************************************************************)
(* Actions                                                                 *)
(***************************************************************************)
Init ==
    /\ health = ShipHealth
    /\ can_damage = TRUE
    /\ attachment = NoAttachment
    /\ x = DisplayWidth \div 2
    /\ y = DisplayHeight - ShipHeight
    /\ current_distance = 0
    /\ moving_forward = FALSE
    /\ moving_backward = FALSE
    /\ moving_right = FALSE
    /\ moving_left = FALSE
    /\ firing = FALSE
    /\ projectiles = <<>>
    /\ asteroids = <<>>
    /\ ended = FALSE
    /\ destroyed = FALSE
    /\ nextAsteroid = 1
    /\ events = [id \in SpriteIds |-> NoEvents]
    /\ faults = {}
    /\ last = Summary(Idle("init"), "init")

\* Sprite.update of the ship: ShipController.update, that is
\* ShipController.move.  When exact is false, ticks can go on for ever:
\* current_distance is left where it is once it would pass MaxFlight, and the
\* bullets of one tick all meet the same.
TickOn(exact, scripts) ==
    /\ ~ended
    /\ ~destroyed
    /\ \E overlap \in Overlaps, script \in scripts :
          LET my == MoveY(y)
              mx == MoveX(x)
              w == MoveRest(World, mx, my.y, script, overlap)
              distance == current_distance + ShipSpeed - my.back
          IN  /\ current_distance' = IF exact \/ distance <= MaxFlight
                                      THEN distance ELSE current_distance
              /\ y' = my.y
              /\ x' = mx
              /\ Commit(w, "update")
    /\ UNCHANGED <<moving_forward, moving_backward, moving_right, moving_left, firing,
                   destroyed, nextAsteroid>>

Tick(exact) ==
    TickOn(exact, IF exact THEN Scripts(Len(projectiles) + 2)
                           ELSE UniformScripts(Len(projectiles) + 2))

\* a tick of a round that is followed for a bounded distance
Update(limit) ==
    /\ current_distance <= limit
    /\ Tick(TRUE)

\* ShipController.fire, bound to space and KeyRelease-space
Fire(release) ==
    /\ ~destroyed
    /\ firing' = ~release
    /\ last' = Summary(Idle("key"), "key")
    /\ UNCHANGED <<health, can_damage, attachment, x, y, current_distance,
                   moving_forward, moving_backward, moving_right, moving_left,
                   projectiles, asteroids, ended, destroyed, nextAsteroid, events, faults>>

\* the state a key handler or a joystick event leaves alone
KeysLeave ==
    UNCHANGED <<health, can_damage, attachment, x, y, current_distance, firing,
                projectiles, asteroids, ended, destroyed, nextAsteroid, events, faults>>

\* ShipController.move_forward, bound to Up and KeyRelease-Up
MoveForward(release) ==
    /\ ~destroyed
    /\ moving_forward' = ~release
    /\ last' = Summary(Idle("key"), "key")
    /\ KeysLeave
    /\ UNCHANGED <<moving_backward, moving_right, moving_left>>

\* ShipController.move_backward, bound to Down and KeyRelease-Down
MoveBackward(release) ==
    /\ ~destroyed
    /\ moving_backward' = ~release
    /\ last' = Summary(Idle("key"), "key")
    /\ KeysLeave
    /\ UNCHANGED <<moving_forward, moving_right, moving_left>>

\* ShipController.move_right, bound to Right and KeyRelease-Right
MoveRight(release) ==
    /\ ~destroyed
    /\ moving_right' = ~release
    /\ last' = Summary(Idle("key"), "key")
    /\ KeysLeave
    /\ UNCHANGED <<moving_forward, moving_backward, moving_left>>

\* ShipController.move_left, bound to Left and KeyRelease-Left
MoveLeft(release) ==
    /\ ~destroyed
    /\ moving_left' = ~release
    /\ last' = Summary(Idle("key"), "key")
    /\ KeysLeave
    /\ UNCHANGED <<moving_forward, moving_backward, moving_right>>

\* round(joystick.get_axis(n)): the positions of the stick on one axis
AxisPositions == {0 - 1, 0, 1}

\* the horizontal half of GameController.axis_motion: the flags after the
\* event it sends has been dispatched to move_right or move_left
AxisX(jx) ==
    IF jx = 1 THEN [right |-> TRUE, left |-> moving_left]
    ELSE IF jx = 0 - 1 THEN [right |-> moving_right, left |-> TRUE]
    ELSE IF moving_right THEN [right |-> FALSE, left |-> moving_left]
    ELSE IF moving_left THEN [right |-> moving_right, left |-> FALSE]
    ELSE [right |-> moving_right, left |-> moving_left]

\* the vertical half of GameController.axis_motion
AxisY(jy) ==
    IF jy = 0 - 1 THEN [forward |-> TRUE, backward |-> moving_backward]
    ELSE IF jy = 1 THEN [forward |-> moving_forward, backward |-> TRUE]
    ELSE IF moving_forward THEN [forward |-> FALSE, backward |-> moving_backward]
    ELSE IF moving_backward THEN [forward |-> moving_forward, backward |-> FALSE]
    ELSE [forward |-> moving_forward, backward |-> moving_backward]

\* GameController.axis_motion with the stick read at (jx, jy)
AxisMotion(jx, jy) ==
    /\ ~destroyed
    /\ moving_right' = AxisX(jx).right
    /\ moving_left' = AxisX(jx).left
    /\ moving_forward' = AxisY(jy).forward
    /\ moving_backward' = AxisY(jy).backward
    /\ last' = Summary([Idle("axis") EXCEPT !.stick = <<jx, jy>>], "axis")
    /\ KeysLeave

\* the round creates an obstacle of the given kind
Spawn(kind) ==
    /\ ~ended
    /\ ~destroyed
    /\ nextAsteroid <= MaxSpawns
    /\ asteroids' = Append(asteroids, NewAsteroid(nextAsteroid, kind))
    /\ nextAsteroid' = nextAsteroid + 1
    /\ last' = Summary(Idle("spawn"), "spawn")
    /\ UNCHANGED <<health, can_damage, attachment, x, y, current_distance,
                   moving_forward, moving_backward, moving_right, moving_left, firing,
                   projectiles, ended, destroyed, events, faults>>

\* AsteroidController.move of an obstacle that has reached the bottom
Leave(i) ==
    /\ ~ended
    /\ ~destroyed
    /\ i \in 1 .. Len(asteroids)
    /\ Commit(RemoveAsteroid(World, asteroids[i].id, "despawn"), "leave")
    /\ UNCHANGED <<x, y, current_distance, moving_forward, moving_backward,
                   moving_right, moving_left, firing, destroyed, nextAsteroid>>

\* Sprite.destroy of the ship
SpriteDestroy ==
    /\ ~destroyed
    /\ destroyed' = TRUE
    /\ Commit(Destroy(World), "destroy")
    /\ UNCHANGED <<x, y, current_distance, moving_forward, moving_backward,
                   moving_right, moving_left, firing, nextAsteroid>>

Next ==
    \/ Update(MaxDistance)
    \/ \E release \in BOOLEAN : Fire(release)
    \/ \E kind \in SpawnKinds : Spawn(kind)
    \/ \E i \in 1 .. MaxSpawns : Leave(i)

\* a round with obstacles, from the state after construction
Spec == Init /\ [][Next]_vars

\* the same round late in the game: the ship has one health point left
LateInit ==
    /\ health = 1
    /\ can_damage = TRUE
    /\ attachment = NoAttachment
    /\ x = DisplayWidth \div 2
    /\ y = DisplayHeight - ShipHeight
    /\ current_distance = 0
    /\ moving_forward = FALSE
    /\ moving_backward = FALSE
    /\ moving_right = FALSE
    /\ moving_left = FALSE
    /\ firing = FALSE
    /\ projectiles = <<>>
    /\ asteroids = <<>>
    /\ ended = FALSE
    /\ destroyed = FALSE
    /\ nextAsteroid = 1
    /\ events = [id \in SpriteIds |-> NoEvents]
    /\ faults = {}
    /\ last = Summary(Idle("init"), "init")

SpecLate == LateInit /\ [][Next]_vars

\* a round without obstacles, long enough for the ship to fill the sky
BarrageNext ==
    \/ Update(MaxBarrage)
    \/ \E release \in BOOLEAN : Fire(release)
    \/ SpriteDestroy

SpecBarrage == Init /\ [][BarrageNext]_vars

\* the ship steered from the keyboard in a round without obstacles
MoveNext ==
    \/ Update(MaxMove)
    \/ \E release \in BOOLEAN : MoveForward(release)
    \/ \E release \in BOOLEAN : MoveBackward(release)
    \/ \E release \in BOOLEAN : MoveRight(release)
    \/ \E release \in BOOLEAN : MoveLeft(release)

SpecMove == Init /\ [][MoveNext]_vars

\* the ship steered from the joystick alone
JoystickNext ==
    \/ Update(MaxMove)
    \/ \E jx \in AxisPositions, jy \in AxisPositions : AxisMotion(jx, jy)

SpecJoystick == Init /\ [][JoystickNext]_vars

\* the bullets that are being followed
Marked(s) == {i \in 1 .. Len(s) : s[i].mark}

\* one bullet in flight is picked to be followed until it is removed
Follow(i) ==
    /\ ~destroyed
    /\ i \in 1 .. Len(projectiles)
    /\ Marked(projectiles) = {}
    /\ projectiles' = [projectiles EXCEPT ![i].mark = TRUE]
    /\ last' = Summary(Idle("follow"), "follow")
    /\ UNCHANGED <<health, can_damage, attachment, x, y, current_distance,
                   moving_forward, moving_backward, moving_right, moving_left, firing,
                   asteroids, ended, destroyed, nextAsteroid, events, faults>>

FlightTick == Tick(FALSE)

\* a tick whose speed draw is not zero
FlightLift ==
    TickOn(FALSE, {script \in UniformScripts(Len(projectiles) + 2) : script[1].draw > 0})

FlightNext ==
    \/ FlightTick
    \/ \E release \in BOOLEAN : Fire(release)
    \/ \E i \in 1 .. (maximum_projectiles + 1) : Follow(i)

\* A round without obstacles that never ends: ticks keep occurring and the
\* speed draw is not zero for ever.  While a bullet is in flight a tick with a
\* non-zero draw is always possible and changes the state, so for a bullet
\* that stays in flight this is what SF_vars(FlightLift) demands.
SpecFlight ==
    /\ Init
    /\ [][FlightNext]_vars
    /\ []<><<FlightLift>>_vars

(***************************************************************************)
(* The methods of Sprite called directly, on sprites in any condition      *)
(***************************************************************************)
Healths == (0 - MaxHealth) .. MaxHealth

Attachments ==
    {NoAttachment} \cup [type : {ATTACHMENT(k) : k \in SpawnKinds \ {"plain"}},
                          id : 1 .. MaxSpawns]

SpriteInit ==
    /\ health \in Healths \cup {ShipHealth}
    /\ can_damage \in BOOLEAN
    /\ attachment = NoAttachment
    /\ x = DisplayWidth \div 2
    /\ y = DisplayHeight - ShipHeight
    /\ current_distance = 0
    /\ moving_forward = FALSE
    /\ moving_backward = FALSE
    /\ moving_right = FALSE
    /\ moving_left = FALSE
    /\ firing = FALSE
    /\ projectiles = <<>>
    /\ \E kind \in SpawnKinds, h \in Healths :
          asteroids = <<[NewAsteroid(1, kind) EXCEPT !.health = h]>>
    /\ ended = FALSE
    /\ destroyed = FALSE
    /\ nextAsteroid = 2
    /\ events = [id \in SpriteIds |-> NoEvents]
    /\ faults = {}
    /\ last = Summary(Idle("init"), "init")

Untouched ==
    UNCHANGED <<x, y, current_distance, moving_forward, moving_backward,
                moving_right, moving_left, firing, destroyed, nextAsteroid>>

\* ship.hurt(attacker), the attacker being obstacle 1 with the given damage
HurtShip(dmg) ==
    /\ events[SHIP].die < MaxCalls
    /\ Commit(ShipHurt(World, 1, dmg), "hurt")
    /\ Untouched

\* asteroid.hurt(attacker) on the live obstacle at index i
HurtAsteroid(i, dmg) ==
    /\ i \in 1 .. Len(asteroids)
    /\ Commit(AsteroidHurt(World, i, dmg), "hurt")
    /\ Untouched

\* ship.attachment = offered
Assign(offered) ==
    /\ Commit(SetAttachment(World, offered), "grant")
    /\ Untouched

\* n hurt calls in a row on the ship by the obstacle at index 1, ending early
\* once the ship has died
RECURSIVE ShipVolley(_, _)
ShipVolley(w, n) ==
    IF n = 0 \/ w.events[SHIP].die > 0 THEN w
    ELSE ShipVolley(ShipHurt(w, w.asteroids[1].id, w.asteroids[1].damage), n - 1)

\* n hurt calls in a row by the ship on the obstacle at index 1, ending early
\* once the obstacle has left the live set
RECURSIVE AsteroidVolley(_, _)
AsteroidVolley(w, n) ==
    IF n = 0 \/ w.asteroids = <<>> THEN w
    ELSE AsteroidVolley(AsteroidHurt(w, 1, ShipDamage), n - 1)

SpriteNext ==
    \/ \E dmg \in 0 .. MaxDamage : HurtShip(dmg)
    \/ \E dmg \in 0 .. MaxDamage : HurtAsteroid(1, dmg)
    \/ \E offered \in Attachments \cup {attachment} : Assign(offered)

SpecSprite == SpriteInit /\ [][SpriteNext]_vars

(***************************************************************************)
(* A sprite hurt again and again by the same attacker                      *)
(***************************************************************************)
VolleyHealths == 1 .. MaxVolley

VolleyInit ==
    /\ health \in VolleyHealths
    /\ can_damage = TRUE
    /\ attachment = NoAttachment
    /\ x = DisplayWidth \div 2
    /\ y = DisplayHeight - ShipHeight
    /\ current_distance = 0
    /\ moving_forward = FALSE
    /\ moving_backward = FALSE
    /\ moving_right = FALSE
    /\ moving_left = FALSE
    /\ firing = FALSE
    /\ projectiles = <<>>
    /\ \E h \in VolleyHealths \cup {AsteroidHealth}, d \in 1 .. MaxDamage :
          asteroids = <<[NewAsteroid(1, "plain") EXCEPT !.health = h, !.damage = d]>>
    /\ ended = FALSE
    /\ destroyed = FALSE
    /\ nextAsteroid = 2
    /\ events = [id \in SpriteIds |-> NoEvents]
    /\ faults = {}
    /\ last = Summary(Idle("init"), "init")

\* ship.hurt(obstacle) n times
VolleyShip(n) ==
    /\ events[SHIP].die = 0
    /\ asteroids # <<>>
    /\ Commit(ShipVolley(World, n), "volley")
    /\ Untouched

\* obstacle.hurt(ship) n times
VolleyAsteroid(n) ==
    /\ asteroids # <<>>
    /\ Commit(AsteroidVolley(World, n), "volley")
    /\ Untouched

VolleyNext ==
    \/ \E n \in 1 .. (MaxVolley + 1) : VolleyShip(n)
    \/ \E n \in 1 .. (MaxVolley + 1) : VolleyAsteroid(n)

SpecVolley == VolleyInit /\ [][VolleyNext]_vars

(***************************************************************************)
(* Properties                                                              *)
(***************************************************************************)
Calls == {last.hurt[k] : k \in 1 .. Len(last.hurt)}

\* C1: in every reachable state the number of in-flight projectiles is at most
\* maximum_projectiles (15)
C1_AtMostMaximum == Len(projectiles) <= maximum_projectiles

\* C1 as amended: the number of in-flight projectiles is at most
\* maximum_projectiles + 1 (16), and a tick that begins with
\* maximum_projectiles or more in flight adds none
C1_AtMostOneOverMaximum ==
    /\ Len(projectiles) <= maximum_projectiles + 1
    /\ (last.op = "update" /\ last.count >= maximum_projectiles)
          => (~last.fired /\ Len(projectiles) <= last.count)

C1_Witness ==
    /\ last.op = "update"
    /\ firing
    /\ last.count = maximum_projectiles + 1
    /\ Len(projectiles) = maximum_projectiles + 1

\* C2: a damageable sprite with positive health dies on the very hurt call
\* whose damage brings its health to zero or below, and its stored health is
\* then the one it had before that hit
C2_DiesOnTheKillingHit ==
    last.op = "hurt" =>
        \A c \in Calls :
            (c.can_damage /\ c.before > 0 /\ c.before - c.damage <= 0)
                => (c.die = 1 /\ c.after = c.before)

\* C3: when a power-up carrier is the one obstacle overlapping a ship that
\* holds no attachment, and no bullet hits anything in that tick, then after
\* the tick the ship holds an attachment of the carrier's type and the carrier
\* has left the live obstacles without an explosion
C3_CarrierOverlapGrants ==
    [][(last'.op = "update" /\ attachment = NoAttachment /\ ~last'.hit)
         => \A i \in 1 .. Len(asteroids) :
               (asteroids[i].is_mechanism /\ last'.overlap = {asteroids[i].id})
                   => /\ attachment'.type = ATTACHMENT(asteroids[i].kind)
                      /\ \A j \in 1 .. Len(asteroids') :
                            asteroids'[j].id # asteroids[i].id
                      /\ events'[asteroids[i].id].exploded = 0]_vars

\* C4: once the ship's attachment slot is occupied, every assignment to it is
\* rejected: the slot keeps the very same attachment, no setup runs and only
\* the deny sound plays
C4_OccupiedSlotRejects ==
    [][attachment # NoAttachment
         => /\ attachment' = attachment
            /\ \A k \in 1 .. Len(last'.grants) :
                  /\ ~last'.grants[k].setup
                  /\ last'.grants[k].sound = "attachment_deny_sound"]_vars

C4_Witness ==
    /\ last.op = "grant"
    /\ attachment # NoAttachment
    /\ Len(last.grants) = 1
    /\ last.grants[1].offered # NoAttachment
    /\ last.grants[1].offered.type # attachment.type
    /\ last.grants[1].sound = "attachment_deny_sound"

\* C5: a projectile is destroyed and removed at most once: none removed at the
\* top bound is also collision-tested or removed for a hit, no removal is
\* attempted for a projectile that is not in the list, and no destroyed
\* projectile is in the list or visited again
C5_DestroyedAtMostOnce ==
    /\ faults = {}
    /\ ~last.mixed
    /\ \A i \in 1 .. Len(projectiles) : projectiles[i].destroyed = 0

C5_Witness == last.op = "update" /\ last.topped /\ last.hit /\ projectiles # <<>>

\* C6: after Sprite.destroy every projectile of the ship has been destroyed and
\* the list of projectiles is empty
C6_DestroyLeavesNone == last.op = "destroy" => projectiles = <<>>

\* C7: every projectile in flight when update_projectiles begins is visited
\* in that tick
C7_EveryProjectileHandled == last.op = "update" => last.unvisited = 0

C9_DeadSpriteDies ==
    last.op = "hurt" =>
        \A c \in Calls :
            (c.can_damage /\ c.before <= 0) => (c.die = 1 /\ c.after = c.before)

C9_Witness ==
    /\ last.op = "hurt"
    /\ \E c \in Calls : c.can_damage /\ c.before < 0 /\ c.damage > 0 /\ c.die = 1

\* C10: a hurt call on a sprite whose can_damage is false changes nothing
C10_ImmuneSpriteUnchanged ==
    [][(last'.op = "hurt" /\ \E k \in 1 .. Len(last'.hurt) : ~last'.hurt[k].can_damage)
         => /\ health' = health
            /\ events' = events
            /\ ended' = ended
            /\ asteroids' = asteroids
            /\ attachment' = attachment
            /\ \A k \in 1 .. Len(last'.hurt) : last'.hurt[k].die = 0]_vars

C10_Witness ==
    /\ last.op = "hurt"
    /\ \E c \in Calls : ~c.can_damage /\ c.before <= 0 /\ c.damage > 0

\* C11: the ship never leaves the play area: its bounding edges stay within
\* 0 .. display.width and 0 .. display.height
C11_ShipWithinBounds ==
    /\ x - ShipWidth \div 2 >= 0
    /\ x + ShipWidth \div 2 <= DisplayWidth
    /\ y - ShipHeight \div 2 >= 0
    /\ y + ShipHeight \div 2 <= DisplayHeight

\* C12: in an update with the forward flag set and the ship's top edge at the
\* top of the play area, no backward motion is applied even when the backward
\* flag is set too: y stays and current_distance gains the full speed
C12_BlockedForwardNoBackward ==
    [][(last'.op = "update" /\ moving_forward /\ y - ShipHeight \div 2 <= 0)
         => (y' = y /\ current_distance' = current_distance + ShipSpeed)]_vars

\* C13: in the player-collision pass of a tick the ship's hurt is invoked
\* once for each live obstacle overlapping the ship, with that obstacle as
\* attacker
C13_EveryOverlapHurts ==
    last.op = "update" =>
        \A a \in last.overlap :
            Cardinality({k \in 1 .. Len(last.hurt) : last.hurt[k].attacker = a}) = 1

\* C14: a hurt call on a damageable sprite with positive health subtracts
\* exactly the attacker's damage from the health and does not invoke die
C14_HurtSubtractsDamage ==
    last.op = "hurt" =>
        \A c \in Calls :
            (c.can_damage /\ c.before > 0)
                => (c.after = c.before - c.damage /\ c.die = 0)

C14_Witness ==
    /\ last.op = "hurt"
    /\ health = ShipHealth - AsteroidDamage
    /\ events[SHIP].die = 0
    /\ \E c \in Calls :
          /\ c.target = SHIP
          /\ c.can_damage
          /\ c.before = ShipHealth
          /\ c.damage = AsteroidDamage
          /\ c.after = ShipHealth - AsteroidDamage

\* C15: the cap is tested once per fire attempt and an accepted attempt adds
\* two projectiles: a tick with firing held fires exactly when fewer than
\* maximum_projectiles are in flight, so an attempt at maximum_projectiles - 1
\* is accepted, the attempt after it adds nothing unless a projectile has been
\* removed, and the count never exceeds maximum_projectiles + 1
C15_CapPerAttempt ==
    [][last'.op = "update"
         => /\ last'.count = Len(projectiles)
            /\ last'.fired = (firing /\ Len(projectiles) < maximum_projectiles)
            /\ Len(projectiles') <= Len(projectiles) + (IF last'.fired THEN 2 ELSE 0)
            /\ Len(projectiles') <= maximum_projectiles + 1]_vars

C15_Witness ==
    /\ last.op = "update"
    /\ last.fired
    /\ last.count = maximum_projectiles - 1
    /\ Len(projectiles) = maximum_projectiles + 1

\* ceil(h / d) for positive h and d
Ceiling(h, d) == (h + d - 1) \div d

\* C16: when a damageable sprite of health H > 0 is hurt repeatedly with the
\* same damage d > 0, its health first reaches zero or below on call
\* ceil(H / d) and die fires for the first time on call ceil(H / d) + 1
C16_DiesOneCallLate ==
    (last.op = "volley" /\ Len(last.hurt) > 0) =>
        LET H == last.hurt[1].before
            d == last.hurt[1].damage
            n == Ceiling(H, d)
        IN  (last.hurt[1].can_damage /\ H > 0 /\ d > 0) =>
                \A k \in 1 .. Len(last.hurt) :
                    /\ last.hurt[k].damage = d
                    /\ (last.hurt[k].die = 1) = (k = n + 1)
                    /\ (last.hurt[k].after <= 0) = (k >= n)

C16_Witness ==
    /\ last.op = "volley"
    /\ Len(last.hurt) = 3
    /\ last.hurt[1].target # SHIP
    /\ last.hurt[1].before = AsteroidHealth
    /\ last.hurt[1].damage = ShipDamage
    /\ last.hurt[2].after = 0
    /\ last.hurt[2].die = 0
    /\ last.hurt[3].die = 1
    /\ asteroids = <<>>
    /\ events[1].removed = "killed"

\* C17: a carrier hit by a projectile dies on that hit: an attachment of its
\* ATTACHMENT type is offered to the ship, accepted exactly when the ship's
\* slot was empty, and the carrier leaves the live set without an explosion
\* whether the offer was accepted or rejected
C17_StruckCarrierCollected ==
    [][last'.op = "update"
         => \A i \in 1 .. Len(asteroids) :
               LET a == asteroids[i]
                   offer == [type |-> ATTACHMENT(a.kind), id |-> a.id]
                   offers == {k \in 1 .. Len(last'.grants) : last'.grants[k].offered = offer}
               IN  (a.is_mechanism /\ a.id \in last'.struck)
                      => /\ events'[a.id].die = events[a.id].die + 1
                         /\ events'[a.id].exploded = 0
                         /\ events'[a.id].removed = "collected"
                         /\ \A j \in 1 .. Len(asteroids') : asteroids'[j].id # a.id
                         /\ Cardinality(offers) = 1
                         /\ \A k \in offers :
                               /\ last'.grants[k].setup =
                                     (/\ attachment = NoAttachment
                                      /\ \A j \in 1 .. (k - 1) : ~last'.grants[j].setup)
                               /\ last'.grants[k].setup => attachment' = offer
                               /\ ~last'.grants[k].setup => attachment' # offer]_vars

C17_Witness ==
    /\ last.op = "update"
    /\ Cardinality(last.struck) = 2
    /\ Len(last.grants) = 2
    /\ last.grants[1].setup
    /\ ~last.grants[2].setup
    /\ attachment = last.grants[1].offered
    /\ asteroids = <<>>
    /\ \A id \in last.struck : events[id].removed = "collected" /\ events[id].exploded = 0

\* C20: every projectile in flight is eventually destroyed and removed from
\* the list, and until then its y never increases
C20_ProjectileEventuallyRemoved ==
    /\ (Marked(projectiles) # {}) ~> (Marked(projectiles) = {} /\ last.landed)
    /\ [][\A i \in Marked(projectiles) : \A j \in Marked(projectiles') :
             projectiles'[j].y <= projectiles[i].y]_vars

C20_Witness ==
    /\ last.op = "update"
    /\ last.landed
    /\ last.topped
    /\ Marked(projectiles) = {}
    /\ projectiles # <<>>

\* C18: after each axis_motion event the direction flags mirror the stick:
\* x = 1 gives moving_right only, x = -1 moving_left only, neutral neither,
\* and likewise y with moving_forward (-1) and moving_backward (1)
C18_FlagsMirrorStick ==
    last.op = "axis" =>
        /\ moving_right = (last.stick[1] = 1)
        /\ moving_left = (last.stick[1] = 0 - 1)
        /\ moving_forward = (last.stick[2] = 0 - 1)
        /\ moving_backward = (last.stick[2] = 1)

\* C19: every update adds speed to current_distance, less speed / 2 exactly
\* when the ship has moved backward in it, so that current_distance strictly
\* increases on every tick
C19_DistanceGrows ==
    [][last'.op = "update"
         => /\ current_distance' =
                   current_distance + ShipSpeed - (IF y' > y THEN ShipSpeed \div 2 ELSE 0)
            /\ current_distance' > current_distance]_vars

C19_Witness ==
    /\ last.op = "update"
    /\ moving_backward
    /\ y = DisplayHeight - ShipHeight + ShipSpeed \div 2
    /\ current_distance = ShipSpeed - ShipSpeed \div 2

====
